---- MODULE Spec2Model ----
(***************************************************************************)
(* MVLookup (msm/src/mvlookup.rs, msm/src/proof.rs): the lookup proof      *)
(* container and its iteration order, the evaluation dispatcher, the       *)
(* constraint builder and the prover's lookup environment.                 *)
(***************************************************************************)
EXTENDS Integers, Sequences, FiniteSets, TLC

\* ------------------------------------------------------------------------
\* Bounds of the model
\* ------------------------------------------------------------------------
\* Highest table identity (as u32) of the proof container: ids are 0..MaxProofID
MaxProofID == 1
\* Longest vector h of partial sums in a proof container
MaxH == 2
\* Witness width N of ProofEvaluations<N, F, ID>
NWitness == 2
\* Most lookups of one table given to constraint_lookups
MaxLookups == 6
\* Highest table identity (as u32) given to constraint_lookups
MaxConsID == 1
\* Most terms of a list given to combine_lookups directly
MaxCombine == 3
\* Most term columns (the table's own column included) of a witness
MaxCols == 7
\* The domains have 2^0 .. 2^MaxLogDomain rows
MaxLogDomain == 1
\* The scalar field is modelled by the prime field of order Primes[PrimeIdx]
PrimeIdx == 1

\* ------------------------------------------------------------------------
\* Program constants
\* ------------------------------------------------------------------------
MAX_SUPPORTED_DEGREE == 8

\* ------------------------------------------------------------------------
\* The scalar field F
\* ------------------------------------------------------------------------
Primes == <<5, 7, 11, 13>>

P == Primes[PrimeIdx]

F == 0..(P - 1)

FAdd(a, b) == (a + b) % P
FSub(a, b) == (a - b + P) % P
FMul(a, b) == (a * b) % P
FNeg(a) == (P - a) % P

RECURSIVE FPow(_, _)
FPow(a, n) == IF n = 0 THEN 1 ELSE FMul(a, FPow(a, n - 1))

\* The inverse of a non-zero element; batch_inversion leaves a zero as it is
FInv(a) == FPow(a, P - 2)

\* Sum and product of f[1..n] in the field, position skip left out
RECURSIVE SumTo(_, _)
SumTo(f, n) == IF n = 0 THEN 0 ELSE FAdd(SumTo(f, n - 1), f[n])

RECURSIVE ProdTo(_, _, _)
ProdTo(f, n, skip) ==
    IF n = 0 THEN 1
    ELSE IF n = skip THEN ProdTo(f, n - 1, skip)
    ELSE FMul(ProdTo(f, n - 1, skip), f[n])

\* ------------------------------------------------------------------------
\* Table identities (trait LookupTableID)
\* ------------------------------------------------------------------------
\* A table identity is a value of its own type; to_u32 / from_u32 convert.
TableID(n) == [tag |-> n]

to_u32(id) == id.tag

from_u32(value) == [tag |-> value]

\* Ord for table identities
IdLt(a, b) == a.tag < b.tag

\* is_fixed: table 0 is the dynamic (RAM) table, the others are fixed
is_fixed(id) == id.tag # 0

ProofIDs == {TableID(n) : n \in 0..MaxProofID}

\* ------------------------------------------------------------------------
\* BTreeMap<ID, T>: the entries <<key, value>> in ascending key order
\* ------------------------------------------------------------------------
BTreeEmpty == <<>>

BTreeHas(map, k) == \E i \in 1..Len(map) : map[i][1] = k

BTreeGet(map, k) == map[CHOOSE i \in 1..Len(map) : map[i][1] = k][2]

BTreeKeys(map) == [i \in 1..Len(map) |-> map[i][1]]

BTreeValues(map) == [i \in 1..Len(map) |-> map[i][2]]

\* An insert that keeps insertion order (a Vec of pairs, or an IndexMap)
BTreeInsertUnordered(map, k, v) ==
    Append(SelectSeq(map, LAMBDA e : e[1] # k), <<k, v>>)

\* BTreeMap::insert: the entry goes to its place in key order and replaces
\* an entry with the same key
BTreeInsert(map, k, v) ==
    SelectSeq(map, LAMBDA e : IdLt(e[1], k))
        \o << <<k, v>> >>
        \o SelectSeq(map, LAMBDA e : IdLt(k, e[1]))

\* ------------------------------------------------------------------------
\* LookupProof<T, ID> and its iteration
\* ------------------------------------------------------------------------
\* Slot values T (commitments or evaluations): opaque, distinguishable
Values == {"a", "b"}

LookupProof(m, h, sum, fixed_tables) ==
    [m |-> m, h |-> h, sum |-> sum, fixed_tables |-> fixed_tables]

\* IntoIterator for &LookupProof
into_iter(self) ==
    BTreeValues(self.m) \o self.h \o <<self.sum>> \o BTreeValues(self.fixed_tables)

\* Option<T>
None == <<>>
Some(x) == <<x>>
IsSome(o) == Len(o) = 1
Unwrap(o) == o[1]

\* ------------------------------------------------------------------------
\* Columns (crate::columns::Column) and ProofEvaluations::evaluate
\* ------------------------------------------------------------------------
ColX(i) == [k |-> "X", i |-> i]
ColLookupPartialSum(i) == [k |-> "LookupPartialSum", i |-> i]
ColLookupAggregation == [k |-> "LookupAggregation", i |-> 0]
ColLookupMultiplicity(u) == [k |-> "LookupMultiplicity", i |-> u]
ColLookupFixedTable(u) == [k |-> "LookupFixedTable", i |-> u]

Ok(v) == [ok |-> TRUE, val |-> v]
Panic(msg) == [ok |-> FALSE, val |-> msg]

\* A dispatcher that answers a fixed-table column from the multiplicities
\* and reads h from the wrong end
evaluate_swapped(witness_evals_, mvlookup_evals_, col) ==
    IF col.k = "X" THEN
        IF col.i < NWitness THEN Ok(witness_evals_[col.i + 1])
        ELSE Panic("Index out of bounds")
    ELSE IF ~IsSome(mvlookup_evals_) THEN Panic("No lookup provided")
    ELSE LET lookup == Unwrap(mvlookup_evals_) IN
         IF col.k = "LookupPartialSum" THEN
             IF col.i < Len(lookup.h) THEN Ok(lookup.h[Len(lookup.h) - col.i])
             ELSE Panic("index out of bounds")
         ELSE IF col.k = "LookupAggregation" THEN Ok(lookup.sum)
         ELSE IF BTreeHas(lookup.m, from_u32(col.i))
              THEN Ok(BTreeGet(lookup.m, from_u32(col.i)))
              ELSE Panic("key not found")

\* A dispatcher that answers with a default instead of aborting
evaluate_lenient(witness_evals_, mvlookup_evals_, col) ==
    IF col.k = "X" THEN
        IF col.i < NWitness THEN Ok(witness_evals_[col.i + 1])
        ELSE Ok(witness_evals_[NWitness])
    ELSE IF ~IsSome(mvlookup_evals_) THEN Ok("a")
    ELSE LET lookup == Unwrap(mvlookup_evals_) IN
         IF col.k = "LookupPartialSum" THEN
             IF col.i < Len(lookup.h) THEN Ok(lookup.h[col.i + 1])
             ELSE Panic("index out of bounds")
         ELSE IF col.k = "LookupAggregation" THEN Ok(lookup.sum)
         ELSE IF col.k = "LookupMultiplicity" THEN
             IF BTreeHas(lookup.m, from_u32(col.i))
             THEN Ok(BTreeGet(lookup.m, from_u32(col.i)))
             ELSE Panic("key not found")
         ELSE
             IF BTreeHas(lookup.fixed_tables, from_u32(col.i))
             THEN Ok(BTreeGet(lookup.fixed_tables, from_u32(col.i)))
             ELSE Panic("key not found")

\* ProofEvaluations::evaluate
evaluate(witness_evals_, mvlookup_evals_, col) ==
    IF col.k = "X" THEN
        IF col.i < NWitness THEN Ok(witness_evals_[col.i + 1])
        ELSE Panic("Index out of bounds")
    ELSE IF ~IsSome(mvlookup_evals_) THEN Panic("No lookup provided")
    ELSE LET lookup == Unwrap(mvlookup_evals_) IN
         IF col.k = "LookupPartialSum" THEN
             IF col.i < Len(lookup.h) THEN Ok(lookup.h[col.i + 1])
             ELSE Panic("index out of bounds")
         ELSE IF col.k = "LookupAggregation" THEN Ok(lookup.sum)
         ELSE IF col.k = "LookupMultiplicity" THEN
             IF BTreeHas(lookup.m, from_u32(col.i))
             THEN Ok(BTreeGet(lookup.m, from_u32(col.i)))
             ELSE Panic("key not found")
         ELSE
             IF BTreeHas(lookup.fixed_tables, from_u32(col.i))
             THEN Ok(BTreeGet(lookup.fixed_tables, from_u32(col.i)))
             ELSE Panic("key not found")

\* ------------------------------------------------------------------------
\* Expressions E<F> (kimchi::circuits::expr) as the builder makes them
\* ------------------------------------------------------------------------
ELit(v) == [t |-> "lit", v |-> v]
EChal(c) == [t |-> "chal", v |-> c]
ECell(col, row) == [t |-> "cell", v |-> col, row |-> row]
EAdd(l, r) == [t |-> "add", l |-> l, r |-> r]
ESub(l, r) == [t |-> "sub", l |-> l, r |-> r]
EMul(l, r) == [t |-> "mul", l |-> l, r |-> r]

EZero == ELit(0)

curr_cell(col) == ECell(col, "Curr")
next_cell(col) == ECell(col, "Next")

Max(a, b) == IF a >= b THEN a ELSE b

Min(a, b) == IF a <= b THEN a ELSE b

\* Expr::degree(1, 0)
RECURSIVE Degree(_)
Degree(e) ==
    IF e.t \in {"lit", "chal"} THEN 0
    ELSE IF e.t = "cell" THEN 1
    ELSE IF e.t = "mul" THEN Degree(e.l) + Degree(e.r)
    ELSE Max(Degree(e.l), Degree(e.r))

\* The value of a cell on row env.j of the columns the prover makes:
\* env = [jc, beta, j, rows, f, m, fixed_tables, h, sum], f the columns of
\* the witness (X(i) is component i % K of its column i / K, K the number of
\* components of a value), m, fixed_tables, h and sum the evaluations of
\* the environment create returns, named as in LookupProof
ProverCell(env, col, row) ==
    LET j == IF row = "Curr" THEN env.j ELSE (env.j % env.rows) + 1
        K == Len(env.f[1][1].value)
    IN  IF col.k = "X" THEN env.f[(col.i \div K) + 1][j].value[(col.i % K) + 1]
        ELSE IF col.k = "LookupPartialSum" THEN env.h[col.i + 1][j]
        ELSE IF col.k = "LookupAggregation" THEN env.sum[j]
        ELSE IF col.k = "LookupMultiplicity" THEN BTreeGet(env.m, from_u32(col.i))[j]
        ELSE BTreeGet(env.fixed_tables, from_u32(col.i))[j]

\* The value every cell of a row takes at an evaluation point
\* env = [jc, beta, c, x]: the two challenges, the value c of the partial
\* sum and aggregation columns and the value x the other cells derive from
CellValue(env, col, row) ==
    IF "j" \in DOMAIN env THEN ProverCell(env, col, row)
    ELSE IF col.k = "X" THEN (env.x * (col.i + 1) + col.i) % P
    ELSE IF col.k = "LookupPartialSum" THEN (env.c + col.i * (env.x + 1)) % P
    ELSE IF col.k = "LookupAggregation" THEN
        IF row = "Curr" THEN (env.c + env.x) % P ELSE (env.c * 2 + 1) % P
    ELSE IF col.k = "LookupMultiplicity" THEN (env.x + col.i + 1) % P
    ELSE (env.x * (col.i + 2) + env.c) % P

RECURSIVE Eval(_, _)
Eval(e, env) ==
    IF e.t = "lit" THEN e.v
    ELSE IF e.t = "chal" THEN (IF e.v = "JointCombiner" THEN env.jc ELSE env.beta)
    ELSE IF e.t = "cell" THEN CellValue(env, e.v, e.row)
    ELSE IF e.t = "add" THEN FAdd(Eval(e.l, env), Eval(e.r, env))
    ELSE IF e.t = "sub" THEN FSub(Eval(e.l, env), Eval(e.r, env))
    ELSE FMul(Eval(e.l, env), Eval(e.r, env))

\* ------------------------------------------------------------------------
\* MVLookup and the constraint builder
\* ------------------------------------------------------------------------
MVLookup(table_id, numerator, value) ==
    [table_id |-> table_id, numerator |-> numerator, value |-> value]

\* LookupTableID::to_field
to_field(id) == to_u32(id) % P

\* LookupTableID::to_constraint
to_constraint(id) == ELit(to_field(id))

joint_combiner_expr == EChal("JointCombiner")
beta_expr == EChal("Beta")

\* value.iter().rev().fold(zero, |acc, y| acc * joint_combiner + y), from
\* the component k on
RECURSIVE FoldValueExpr(_, _)
FoldValueExpr(value, k) ==
    IF k > Len(value) THEN EZero
    ELSE EAdd(EMul(FoldValueExpr(value, k + 1), joint_combiner_expr), value[k])

combined_value_expr(x) == EMul(FoldValueExpr(x.value, 1), joint_combiner_expr)

\* A denominator that leaves the table identity out
denominator_expr_no_id(x) == EAdd(beta_expr, combined_value_expr(x))

\* beta + combined_value + table_id
denominator_expr(x) ==
    EAdd(EAdd(beta_expr, combined_value_expr(x)), to_constraint(x.table_id))

\* denominators.iter().fold(init, |acc, x| acc * x), skipping position skip
RECURSIVE FoldMul(_, _, _, _)
FoldMul(init, denominators, n, skip) ==
    IF n = 0 THEN init
    ELSE IF n = skip THEN FoldMul(init, denominators, n - 1, skip)
    ELSE EMul(FoldMul(init, denominators, n - 1, skip), denominators[n])

\* .reduce(|x, y| x + y) over the first n terms (n >= 1)
RECURSIVE ReduceAdd(_, _)
ReduceAdd(terms, n) ==
    IF n = 1 THEN terms[1] ELSE EAdd(ReduceAdd(terms, n - 1), terms[n])

\* combine_lookups: Ok(lhs - rhs), or the abort of the degree assertion
combine_lookups(column, lookups) ==
    LET n == Len(lookups)
        denominators == [i \in 1..n |-> denominator_expr(lookups[i])]
        lhs == FoldMul(curr_cell(column), denominators, n, 0)
        terms == [i \in 1..n |-> FoldMul(lookups[i].numerator, denominators, n, i)]
        rhs == IF n = 0 THEN EZero ELSE ReduceAdd(terms, n)
    IN  IF \E i \in 1..n : Degree(combined_value_expr(lookups[i])) # 1
        THEN Panic("Only degree one is supported in the denominator")
        ELSE Ok(ESub(lhs, rhs))

CeilDiv(a, b) == (a + b - 1) \div b

\* lookups.chunks(size): the c-th chunk (c >= 1)
Chunk(lookups, size, c) ==
    SubSeq(lookups, (c - 1) * size + 1,
           IF c * size < Len(lookups) THEN c * size ELSE Len(lookups))

\* The term constraint_lookups appends for table id
table_lookup(id) ==
    MVLookup(id, curr_cell(ColLookupMultiplicity(to_u32(id))),
             <<curr_cell(ColLookupFixedTable(to_u32(id)))>>)

\* The constraints of the tables from entry t of the map on, the first of
\* them bound to partial sum idx_partial_sum
RECURSIVE ChunkConstraints(_, _, _)
ChunkConstraints(lookups_map_, t, idx_partial_sum) ==
    IF t > Len(lookups_map_) THEN <<>>
    ELSE LET id == lookups_map_[t][1]
             lookups == Append(lookups_map_[t][2], table_lookup(id))
             size == MAX_SUPPORTED_DEGREE - 2
             n_chunks == CeilDiv(Len(lookups), size)
         IN  [c \in 1..n_chunks |->
                 combine_lookups(ColLookupPartialSum(idx_partial_sum + c - 1),
                                 Chunk(lookups, size, c))]
             \o ChunkConstraints(lookups_map_, t + 1, idx_partial_sum + n_chunks)

\* A fold that subtracts the first partial sum only
FoldSubFirstOnly(constraint, n) ==
    IF n = 0 THEN constraint
    ELSE ESub(constraint, curr_cell(ColLookupPartialSum(0)))

\* (0..idx_partial_sum).fold(constraint, |acc, i| acc - curr_cell(LookupPartialSum(i)))
RECURSIVE FoldSubPartialSums(_, _)
FoldSubPartialSums(constraint, n) ==
    IF n = 0 THEN constraint
    ELSE ESub(FoldSubPartialSums(constraint, n - 1),
              curr_cell(ColLookupPartialSum(n - 1)))

\* constraint_lookups: Ok(the constraints), or the abort of a combine_lookups
constraint_lookups(lookups_map_) ==
    LET chunks == ChunkConstraints(lookups_map_, 1, 0)
        idx_partial_sum == Len(chunks)
        constraint == ESub(next_cell(ColLookupAggregation),
                           curr_cell(ColLookupAggregation))
    IN  IF \E i \in 1..Len(chunks) : ~chunks[i].ok
        THEN Panic("Only degree one is supported in the denominator")
        ELSE Ok([i \in 1..Len(chunks) |-> chunks[i].val]
                    \o <<FoldSubPartialSums(constraint, idx_partial_sum)>>)

\* ------------------------------------------------------------------------
\* prover::Env::create
\* ------------------------------------------------------------------------
\* srs.commit_evaluations_non_hiding: binding, a function of the evaluations
Commit(evals) == [comm |-> evals]

\* The transcript: the operations on fq_sponge in the order they were made;
\* kind names the statement of create that made the operation
absorb_commitment(sponge, kind, comm) ==
    Append(sponge, [op |-> "absorb", kind |-> kind, v |-> comm])

challenge(sponge, kind, value) ==
    Append(sponge, [op |-> "challenge", kind |-> kind, v |-> value])

\* A loop that absorbs nothing
AbsorbNone(sponge, kind, comms) == sponge

\* comms.for_each(|comm| absorb_commitment(fq_sponge, comm))
RECURSIVE AbsorbAll(_, _, _)
AbsorbAll(sponge, kind, comms) ==
    IF comms = <<>> THEN sponge
    ELSE AbsorbAll(absorb_commitment(sponge, kind, Head(comms)), kind, Tail(comms))

\* The fixed tables absorbed before the partial sums
AbsorbRowSumsFixedFirst(sponge, terms_comms, fixed_comms) ==
    AbsorbAll(AbsorbAll(sponge, "fixed", fixed_comms), "h", terms_comms)

\* lookup_terms_comms_d1 then fixed_lookup_tables_comms_d1 are absorbed
AbsorbRowSums(sponge, terms_comms, fixed_comms) ==
    AbsorbAll(AbsorbAll(sponge, "h", terms_comms), "fixed", fixed_comms)

\* lookup_counters_evals_d1 of the witnesses 1..w: m of every witness whose
\* first term is of a fixed table, collected into a BTreeMap
RECURSIVE lookup_counters(_, _)
lookup_counters(lookups_, w) ==
    IF w = 0 THEN BTreeEmpty
    ELSE LET rest == lookup_counters(lookups_, w - 1)
             table_id == lookups_[w].f[1][1].table_id
         IN  IF is_fixed(table_id)
             THEN BTreeInsert(rest, table_id, lookups_[w].m)
             ELSE rest

\* value.iter().rev().fold(zero, |acc, y| acc * vector_lookup_combiner + y)
RECURSIVE FoldValue(_, _, _)
FoldValue(value, k, r) ==
    IF k > Len(value) THEN 0
    ELSE FAdd(FMul(FoldValue(value, k + 1, r), r), value[k])

\* A combined value whose first component is not multiplied by r
combined_value_unshifted(x, r) == FAdd(FoldValue(x.value, 1, r), to_field(x.table_id))

\* combined_value, the table id added
combined_value(x, r) == FAdd(FMul(FoldValue(x.value, 1, r), r), to_field(x.table_id))

\* denominators, row after row and column after column within a row
denominators(f, rows, r, beta_) ==
    LET n == Len(f)
    IN  [d \in 1..(n * rows) |->
            FAdd(beta_, combined_value(f[((d - 1) % n) + 1][((d - 1) \div n) + 1], r))]

\* ark_ff::fields::batch_inversion
batch_inversion(v) == [i \in 1..Len(v) |-> FInv(v[i])]

\* fixed_lookup_tables.entry(k).or_insert_with(Vec::new).push(v)
BTreePush(map, k, v) ==
    BTreeInsert(map, k, Append(IF BTreeHas(map, k) THEN BTreeGet(map, k) ELSE <<>>, v))

\* fixed_lookup_tables after the rows 1..j of the witness f
RECURSIVE RecordFixedTable(_, _, _, _)
RecordFixedTable(fixed, f, j, r) ==
    IF j = 0 THEN fixed
    ELSE LET prev == RecordFixedTable(fixed, f, j - 1, r)
             x == f[Len(f)][j]
         IN  IF is_fixed(x.table_id)
             THEN BTreePush(prev, x.table_id, combined_value(x, r))
             ELSE prev

n_partial_sums(n) ==
    IF n % (MAX_SUPPORTED_DEGREE - 2) = 0
    THEN n \div (MAX_SUPPORTED_DEGREE - 2)
    ELSE n \div (MAX_SUPPORTED_DEGREE - 2) + 1

\* partial_sums[partial_sum_idx].push(row_acc): aborts past the last vector
PushRowAcc(st) ==
    IF st.partial_sum_idx >= Len(st.partial_sums) THEN [st EXCEPT !.ok = FALSE]
    ELSE [st EXCEPT !.partial_sums[st.partial_sum_idx + 1] = Append(@, st.row_acc)]

\* The body of the loop over the columns of a row
TermStep(st, numerator, inv) ==
    IF ~st.ok THEN st
    ELSE LET st1 == [st EXCEPT
                        !.row_acc = FAdd(@, FMul(numerator, inv[st.denominator_index + 1])),
                        !.denominator_index = @ + 1]
         IN  IF st1.denominator_index % (MAX_SUPPORTED_DEGREE - 2) = 0
             THEN LET pushed == PushRowAcc(st1)
                  IN  [pushed EXCEPT !.row_acc = 0, !.partial_sum_idx = @ + 1]
             ELSE st1

\* The loop over the columns 1..i of row j
RECURSIVE ColumnsLoop(_, _, _, _, _)
ColumnsLoop(st, f, inv, j, i) ==
    IF i = 0 THEN st
    ELSE TermStep(ColumnsLoop(st, f, inv, j, i - 1), f[i][j].numerator, inv)

\* What follows the loop over the columns of a row
RowEnd(st) ==
    IF ~st.ok THEN st
    ELSE IF st.denominator_index % (MAX_SUPPORTED_DEGREE - 2) # 0 THEN PushRowAcc(st)
    ELSE st

\* The loop over the rows 1..j
RECURSIVE RowsLoop(_, _, _, _)
RowsLoop(st, f, inv, j) ==
    IF j = 0 THEN st
    ELSE LET before == RowsLoop(st, f, inv, j - 1)
             start == [before EXCEPT !.partial_sum_idx = 0, !.row_acc = 0]
         IN  RowEnd(ColumnsLoop(start, f, inv, j, Len(f)))

\* vec![Vec::with_capacity(..); n]
RECURSIVE EmptyVecs(_)
EmptyVecs(n) == IF n = 0 THEN <<>> ELSE Append(EmptyVecs(n - 1), <<>>)

\* partial_sums of one witness: [ok, partial_sums]
partial_sums_of(f, rows, r, beta_) ==
    LET inv == batch_inversion(denominators(f, rows, r, beta_))
        st0 == [partial_sums |-> EmptyVecs(n_partial_sums(Len(f))),
                partial_sum_idx |-> 0, row_acc |-> 0, denominator_index |-> 0,
                ok |-> TRUE]
    IN  RowsLoop(st0, f, inv, rows)

\* lookup_terms_evals (one entry per witness) and fixed_lookup_tables after
\* the witnesses 1..w: [ok, evals, fixed]
RECURSIVE lookup_terms(_, _, _, _, _)
lookup_terms(lookups_, w, rows, r, beta_) ==
    IF w = 0 THEN [ok |-> TRUE, evals |-> <<>>, fixed |-> BTreeEmpty]
    ELSE LET prev == lookup_terms(lookups_, w - 1, rows, r, beta_)
             f == lookups_[w].f
             sums == partial_sums_of(f, rows, r, beta_)
         IN  IF ~prev.ok \/ ~sums.ok THEN [prev EXCEPT !.ok = FALSE]
             ELSE [ok |-> TRUE,
                   evals |-> Append(prev.evals, sums.partial_sums),
                   fixed |-> RecordFixedTable(prev.fixed, f, rows, r)]

\* lookup_terms_evals.into_iter().flatten()
RECURSIVE Flatten(_)
Flatten(ss) == IF ss = <<>> THEN <<>> ELSE Head(ss) \o Flatten(Tail(ss))

\* acc after the rows 1..i: acc += lte[i] for every lte
RECURSIVE AccAfter(_, _)
AccAfter(terms, i) ==
    IF i = 0 THEN 0
    ELSE FAdd(AccAfter(terms, i - 1),
              SumTo([h \in 1..Len(terms) |-> terms[h][i]], Len(terms)))

\* An aggregation that keeps the accumulator after the row has been added
aggregation_evals_late(terms, rows) == [i \in 1..rows |-> AccAfter(terms, i)]

\* evals of lookup_aggregation_evals_d1: the accumulator before each row
aggregation_evals(terms, rows) == [i \in 1..rows |-> AccAfter(terms, i - 1)]

\* ------------------------------------------------------------------------
\* State
\* ------------------------------------------------------------------------
VARIABLES
    witness_evals,    \* ProofEvaluations.witness_evals
    mvlookup_evals,   \* ProofEvaluations.mvlookup_evals : Option<LookupProof>
    m_entries,        \* what was inserted into m : table id -> latest value
    fixed_entries,    \* what was inserted into fixed_tables
    phase,            \* "build" while the proof is constructed, then "use"
    ret,              \* the last call on the finished proof and what it returned
    lookups_map,      \* BTreeMap<ID, Vec<MVLookup<E, ID>>> given to constraint_lookups
    call,             \* the last call of the constraint builder and what it returned
    mvlookups,        \* ProofInputs.mvlookups, the argument lookups of create
    d1_size,          \* domain.d1.size
    pc,               \* where create is
    fq_sponge,        \* the transcript
    lookup_counters_evals_d1,
    vector_lookup_combiner,
    beta,
    lookup_terms_evals,   \* per witness, before it is flattened
    fixed_lookup_tables,
    lookup_aggregation_evals_d1

proofVars == <<witness_evals, mvlookup_evals, m_entries, fixed_entries, phase, ret>>

consVars == <<lookups_map, call>>

createVars == <<mvlookups, d1_size, pc, fq_sponge, lookup_counters_evals_d1,
                vector_lookup_combiner, beta, lookup_terms_evals, fixed_lookup_tables,
                lookup_aggregation_evals_d1>>

vars == <<proofVars, consVars, createVars>>

\* ------------------------------------------------------------------------
\* The proof container: construction, iteration, evaluation
\* ------------------------------------------------------------------------
EmptyFun == [x \in {} |-> "a"]

NoBuilderCall ==
    [fn |-> "none", column |-> ColX(0), lookups |-> <<>>, res |-> Ok(<<>>)]

\* The variables of the constraint builder, at rest
ConsIdle ==
    /\ lookups_map = BTreeEmpty
    /\ call = NoBuilderCall

\* The variables of create, at rest
CreateIdle ==
    /\ mvlookups = <<>>
    /\ d1_size = 1
    /\ pc = "idle"
    /\ fq_sponge = <<>>
    /\ lookup_counters_evals_d1 = BTreeEmpty
    /\ vector_lookup_combiner = 0
    /\ beta = 0
    /\ lookup_terms_evals = <<>>
    /\ fixed_lookup_tables = BTreeEmpty
    /\ lookup_aggregation_evals_d1 = <<>>

NoCall == [op |-> "none", col |-> ColX(0), res |-> Ok(<<>>)]

\* The columns a caller asks for
Requests ==
    {ColX(i) : i \in 0..NWitness}
        \cup {ColLookupPartialSum(i) : i \in 0..MaxH}
        \cup {ColLookupAggregation}
        \cup {ColLookupMultiplicity(to_u32(id)) : id \in ProofIDs}
        \cup {ColLookupFixedTable(to_u32(id)) : id \in ProofIDs}

InitProof ==
    /\ witness_evals \in {w \in [1..NWitness -> Values] :
                             \A i \in 1..(NWitness - 1) : w[i] # w[i + 1]}
    /\ mvlookup_evals \in {None} \cup
           {Some(LookupProof(BTreeEmpty, <<>>, s, BTreeEmpty)) : s \in Values}
    /\ m_entries = EmptyFun
    /\ fixed_entries = EmptyFun
    /\ phase = "build"
    /\ ret = NoCall
    /\ ConsIdle
    /\ CreateIdle

InsertM(id, v) ==
    /\ phase = "build"
    /\ IsSome(mvlookup_evals)
    /\ LET p == Unwrap(mvlookup_evals) IN
         mvlookup_evals' = Some([p EXCEPT !.m = BTreeInsert(p.m, id, v)])
    /\ m_entries' = (id :> v) @@ m_entries
    /\ UNCHANGED <<witness_evals, fixed_entries, phase, ret, consVars, createVars>>

InsertFixedTable(id, v) ==
    /\ phase = "build"
    /\ IsSome(mvlookup_evals)
    /\ LET p == Unwrap(mvlookup_evals) IN
         mvlookup_evals' =
             Some([p EXCEPT !.fixed_tables = BTreeInsert(p.fixed_tables, id, v)])
    /\ fixed_entries' = (id :> v) @@ fixed_entries
    /\ UNCHANGED <<witness_evals, m_entries, phase, ret, consVars, createVars>>

PushH(v) ==
    /\ phase = "build"
    /\ IsSome(mvlookup_evals)
    /\ Len(Unwrap(mvlookup_evals).h) < MaxH
    /\ LET p == Unwrap(mvlookup_evals) IN
         mvlookup_evals' = Some([p EXCEPT !.h = Append(p.h, v)])
    /\ UNCHANGED <<witness_evals, m_entries, fixed_entries, phase, ret, consVars, createVars>>

\* The proof is handed over: read-only from here on
Finish ==
    /\ phase = "build"
    /\ phase' = "use"
    /\ UNCHANGED <<witness_evals, mvlookup_evals, m_entries, fixed_entries, ret, consVars, createVars>>

CallIntoIter ==
    /\ phase = "use"
    /\ IsSome(mvlookup_evals)
    /\ ret' = [op |-> "into_iter", col |-> ColX(0),
               res |-> Ok(into_iter(Unwrap(mvlookup_evals)))]
    /\ UNCHANGED <<witness_evals, mvlookup_evals, m_entries, fixed_entries, phase, consVars, createVars>>

CallEvaluate(col) ==
    /\ phase = "use"
    /\ ret' = [op |-> "evaluate", col |-> col,
               res |-> evaluate(witness_evals, mvlookup_evals, col)]
    /\ UNCHANGED <<witness_evals, mvlookup_evals, m_entries, fixed_entries, phase, consVars, createVars>>

NextProof ==
    \/ \E id \in ProofIDs, v \in Values : InsertM(id, v)
    \/ \E id \in ProofIDs, v \in Values : InsertFixedTable(id, v)
    \/ \E v \in Values : PushH(v)
    \/ Finish
    \/ CallIntoIter
    \/ \E col \in Requests : CallEvaluate(col)

SpecProof == InitProof /\ [][NextProof]_vars

\* ------------------------------------------------------------------------
\* The constraint builder: a map of lookups is built and given to
\* constraint_lookups; combine_lookups is called on lists of its own
\* ------------------------------------------------------------------------
ConsIDs == {TableID(n) : n \in 0..MaxConsID}

\* The variables of the proof container, at rest
ProofIdle ==
    /\ witness_evals = [i \in 1..NWitness |-> "a"]
    /\ mvlookup_evals = None
    /\ m_entries = EmptyFun
    /\ fixed_entries = EmptyFun
    /\ phase = "build"
    /\ ret = NoCall

\* The j-th lookup a circuit adds for table id: the witness column j
CircuitLookup(id, j) == MVLookup(id, ELit(1), <<curr_cell(ColX(j))>>)

\* Terms to call combine_lookups on: a scalar lookup, a vector lookup with
\* a column as numerator, a table term, a three-component lookup with a
\* constant component and a negative numerator; then two terms whose
\* combined value is not of degree one
TermPool ==
    << MVLookup(TableID(0), ELit(1), <<curr_cell(ColX(0))>>),
       MVLookup(TableID(1), curr_cell(ColX(1)),
                <<curr_cell(ColX(1)), curr_cell(ColX(0))>>),
       table_lookup(TableID(1)),
       MVLookup(TableID(2), ELit(P - 1),
                <<curr_cell(ColX(2)), ELit(3), curr_cell(ColX(0))>>),
       MVLookup(TableID(0), ELit(1), <<ELit(2)>>),
       MVLookup(TableID(1), ELit(1),
                <<EMul(curr_cell(ColX(0)), curr_cell(ColX(1)))>>) >>

\* The list of len terms of the pool from position start on, cyclically
PoolWindow(start, len) ==
    [i \in 1..len |-> TermPool[((start + i - 2) % Len(TermPool)) + 1]]

InitCons ==
    /\ ProofIdle
    /\ CreateIdle
    /\ lookups_map = BTreeEmpty
    /\ call = NoBuilderCall

\* lookups_map.entry(id).or_default().push(lookup)
PushLookup(id) ==
    /\ call.fn = "none"
    /\ LET old == IF BTreeHas(lookups_map, id) THEN BTreeGet(lookups_map, id) ELSE <<>>
       IN  /\ Len(old) < MaxLookups
           /\ lookups_map' =
                  BTreeInsert(lookups_map, id, Append(old, CircuitLookup(id, Len(old))))
    /\ UNCHANGED <<call, proofVars, createVars>>

\* lookups_map.entry(id).or_default(): a table nothing is looked up in
AddTable(id) ==
    /\ call.fn = "none"
    /\ ~BTreeHas(lookups_map, id)
    /\ lookups_map' = BTreeInsert(lookups_map, id, <<>>)
    /\ UNCHANGED <<call, proofVars, createVars>>

CallConstraintLookups ==
    /\ call.fn = "none"
    /\ call' = [fn |-> "constraint_lookups", column |-> ColX(0), lookups |-> <<>>,
                res |-> constraint_lookups(lookups_map)]
    /\ UNCHANGED <<lookups_map, proofVars, createVars>>

CallCombineLookups(column, lookups) ==
    /\ lookups_map = BTreeEmpty
    /\ call.fn # "constraint_lookups"
    /\ call' = [fn |-> "combine_lookups", column |-> column, lookups |-> lookups,
                res |-> combine_lookups(column, lookups)]
    /\ UNCHANGED <<lookups_map, proofVars, createVars>>

NextCons ==
    \/ \E id \in ConsIDs : PushLookup(id)
    \/ \E id \in ConsIDs : AddTable(id)
    \/ CallConstraintLookups
    \/ \E i \in 0..1, start \in 1..Len(TermPool), len \in 0..MaxCombine :
           CallCombineLookups(ColLookupPartialSum(i), PoolWindow(start, len))

SpecCons == InitCons /\ [][NextCons]_vars

\* ------------------------------------------------------------------------
\* The witnesses create is run on
\* ------------------------------------------------------------------------
\* 2^k
RECURSIVE Pow2(_)
Pow2(k) == IF k = 0 THEN 1 ELSE 2 * Pow2(k - 1)

DomainSizes == {Pow2(k) : k \in 0..MaxLogDomain}

\* Row j (from 0) of the table id: table 2 is a table of vectors
TableEntry(id, j) ==
    IF id.tag = 2 THEN <<j % P, (j * j + 1) % P>> ELSE <<j % P>>

\* The table row the lookup column i (from 1) looks up at row j (from 0)
Sel(a, b, rows, i, j) == (a * j + b * i) % rows

\* A witness of k lookup columns that follows the convention: the looked-up
\* terms have numerator 1, the last column is the table with the negated
\* multiplicity as numerator, m counts the lookups of each table row
HonestWitness(id, k, rows, a, b) ==
    LET m == [j \in 1..rows |->
                 Cardinality({e \in (1..k) \X (0..(rows - 1)) :
                                 Sel(a, b, rows, e[1], e[2]) = j - 1}) % P]
    IN  [f |-> [i \in 1..(k + 1) |-> [j \in 1..rows |->
                  IF i <= k
                  THEN MVLookup(id, 1, TableEntry(id, Sel(a, b, rows, i, j - 1)))
                  ELSE MVLookup(id, FNeg(m[j]), TableEntry(id, j - 1))]],
         m |-> m]

\* The same witness, its first lookup replaced by a value the table lacks
AbsentWitness(id, k, rows, a, b) ==
    LET w == HonestWitness(id, k, rows, a, b)
    IN  [w EXCEPT !.f[1][1].value = TableEntry(id, rows)]

\* A witness of the dynamic table: every row writes a value that another
\* row reads
RamWitness(rows) ==
    [f |-> << [j \in 1..rows |-> MVLookup(TableID(0), 1, <<(j - 1) % P>>)],
              [j \in 1..rows |-> MVLookup(TableID(0), P - 1, <<(j % rows) % P>>)] >>,
     m |-> [j \in 1..rows |-> 0]]

\* A witness whose first columns are of the dynamic table and whose last
\* columns are k lookups of the row 0 of the fixed table 1 and that table
MixedWitness(rows, k) ==
    LET h == HonestWitness(TableID(1), k, rows, 0, 0)
    IN  [f |-> RamWitness(rows).f \o h.f, m |-> h.m]

SmallWitness(id, rows) ==
    IF is_fixed(id) THEN HonestWitness(id, 1, rows, id.tag % 2, 0) ELSE RamWitness(rows)

CreateInputs ==
    {[lookups |-> <<HonestWitness(TableID(t), k, rows, a, b)>>, rows |-> rows] :
        t \in 1..2, k \in 0..(MaxCols - 1), rows \in DomainSizes,
        a \in 0..1, b \in 0..1}
    \cup
    {[lookups |-> <<AbsentWitness(TableID(t), k, rows, a, b)>>, rows |-> rows] :
        t \in 1..2, k \in 1..(MaxCols - 1), rows \in DomainSizes,
        a \in 0..1, b \in 0..1}
    \cup
    {[lookups |-> <<SmallWitness(TableID(t1), rows), SmallWitness(TableID(t2), rows)>>,
      rows |-> rows] : t1 \in 0..2, t2 \in 0..2, rows \in DomainSizes}
    \cup
    {[lookups |-> <<MixedWitness(rows, k)>>, rows |-> rows] :
        rows \in DomainSizes, k \in 0..1}
    \cup
    {[lookups |-> <<>>, rows |-> rows] : rows \in DomainSizes}

\* ------------------------------------------------------------------------
\* prover::Env::create, statement after statement
\* ------------------------------------------------------------------------
Init ==
    /\ ProofIdle
    /\ ConsIdle
    /\ \E input \in CreateInputs :
           /\ mvlookups = input.lookups
           /\ d1_size = input.rows
    /\ pc = "start"
    /\ fq_sponge = <<>>
    /\ lookup_counters_evals_d1 = BTreeEmpty
    /\ vector_lookup_combiner = 0
    /\ beta = 0
    /\ lookup_terms_evals = <<>>
    /\ fixed_lookup_tables = BTreeEmpty
    /\ lookup_aggregation_evals_d1 = <<>>

\* The commitments to the values of a map, by ascending key
CommitValues(map) == [i \in 1..Len(map) |-> Commit(map[i][2])]

\* The commitments to the vectors of a list
CommitEach(evals) == [i \in 1..Len(evals) |-> Commit(evals[i])]

\* m(X): the counters are computed, committed to and absorbed
Counters ==
    /\ pc = "start"
    /\ LET counters == lookup_counters(mvlookups, Len(mvlookups))
       IN  /\ lookup_counters_evals_d1' = counters
           /\ fq_sponge' = AbsorbAll(fq_sponge, "m", CommitValues(counters))
    /\ pc' = "m_absorbed"
    /\ UNCHANGED <<mvlookups, d1_size, vector_lookup_combiner, beta, lookup_terms_evals,
                   fixed_lookup_tables, lookup_aggregation_evals_d1, proofVars, consVars>>

\* let vector_lookup_combiner = fq_sponge.challenge()
DrawJointCombiner(value) ==
    /\ pc = "m_absorbed"
    /\ vector_lookup_combiner' = value
    /\ fq_sponge' = challenge(fq_sponge, "joint_combiner", value)
    /\ pc' = "combiner_drawn"
    /\ UNCHANGED <<mvlookups, d1_size, lookup_counters_evals_d1, beta, lookup_terms_evals,
                   fixed_lookup_tables, lookup_aggregation_evals_d1, proofVars, consVars>>

\* let beta = fq_sponge.challenge()
DrawBeta(value) ==
    /\ pc = "combiner_drawn"
    /\ beta' = value
    /\ fq_sponge' = challenge(fq_sponge, "beta", value)
    /\ pc' = "beta_drawn"
    /\ UNCHANGED <<mvlookups, d1_size, lookup_counters_evals_d1, vector_lookup_combiner,
                   lookup_terms_evals, fixed_lookup_tables, lookup_aggregation_evals_d1,
                   proofVars, consVars>>

\* h(X): the partial sums and the fixed tables are computed, checked for
\* their length, committed to and absorbed; or create aborts
RowSums ==
    /\ pc = "beta_drawn"
    /\ LET terms == lookup_terms(mvlookups, Len(mvlookups), d1_size,
                                 vector_lookup_combiner, beta)
           flat == Flatten(terms.evals)
       IN  IF ~terms.ok THEN
               /\ pc' = "panic_index"
               /\ UNCHANGED <<fq_sponge, lookup_terms_evals, fixed_lookup_tables>>
           ELSE IF \E h \in 1..Len(flat) : Len(flat[h]) # d1_size THEN
               /\ pc' = "panic_terms_len"
               /\ lookup_terms_evals' = terms.evals
               /\ fixed_lookup_tables' = terms.fixed
               /\ UNCHANGED fq_sponge
           ELSE IF \E t \in 1..Len(terms.fixed) : Len(terms.fixed[t][2]) # d1_size THEN
               /\ pc' = "panic_fixed_len"
               /\ lookup_terms_evals' = terms.evals
               /\ fixed_lookup_tables' = terms.fixed
               /\ UNCHANGED fq_sponge
           ELSE
               /\ pc' = "h_absorbed"
               /\ lookup_terms_evals' = terms.evals
               /\ fixed_lookup_tables' = terms.fixed
               /\ fq_sponge' = AbsorbRowSums(fq_sponge, CommitEach(flat),
                                             CommitValues(terms.fixed))
    /\ UNCHANGED <<mvlookups, d1_size, lookup_counters_evals_d1, vector_lookup_combiner,
                   beta, lookup_aggregation_evals_d1, proofVars, consVars>>

\* The running sum is computed, checked to end at zero, committed to and
\* absorbed, and create returns; or create aborts
Aggregation ==
    /\ pc = "h_absorbed"
    /\ LET flat == Flatten(lookup_terms_evals)
           evals == aggregation_evals(flat, d1_size)
       IN  IF AccAfter(flat, d1_size) # 0 THEN
               /\ pc' = "panic_zero_sum"
               /\ UNCHANGED <<fq_sponge, lookup_aggregation_evals_d1>>
           ELSE
               /\ pc' = "done"
               /\ lookup_aggregation_evals_d1' = evals
               /\ fq_sponge' = absorb_commitment(fq_sponge, "sum", Commit(evals))
    /\ UNCHANGED <<mvlookups, d1_size, lookup_counters_evals_d1, vector_lookup_combiner,
                   beta, lookup_terms_evals, fixed_lookup_tables, proofVars, consVars>>

Next ==
    \/ Counters
    \/ \E value \in F : DrawJointCombiner(value)
    \/ \E value \in F : DrawBeta(value)
    \/ RowSums
    \/ Aggregation

Spec == Init /\ [][Next]_vars

\* ------------------------------------------------------------------------
\* Claims about prover::Env::create
\* ------------------------------------------------------------------------
\* The table ids that get a multiplicity polynomial: those of the first
\* term of a witness, when fixed
CounterIDs ==
    {mvlookups[w].f[1][1].table_id : w \in
        {x \in 1..Len(mvlookups) : is_fixed(mvlookups[x].f[1][1].table_id)}}

\* m of the last witness of table id
CounterOf(id) ==
    LET ws == {w \in 1..Len(mvlookups) : mvlookups[w].f[1][1].table_id = id}
    IN  mvlookups[CHOOSE w \in ws : \A x \in ws : x <= w].m

\* Position of id among the ids of S, ascending
RankIn(S, id) == Cardinality({x \in S : IdLt(x, id)}) + 1

KindsBefore(i) == {fq_sponge[j].kind : j \in 1..(i - 1)}

\* C2: in every run of create, all multiplicity commitments are absorbed,
\* by ascending table id, before any challenge is drawn; then the joint
\* combiner is drawn, then beta; no partial-sum, fixed-table or aggregation
\* commitment is absorbed before both challenges; and the aggregation
\* commitment is absorbed last, after which nothing happens on the transcript.
C2_TranscriptOrder ==
    LET n == Len(fq_sponge)
        nm == Cardinality(CounterIDs)
    IN  /\ \A i \in 1..n :
               LET e == fq_sponge[i] IN
               /\ e.op = "challenge" <=> e.kind \in {"joint_combiner", "beta"}
               /\ e.op = "challenge" =>
                      /\ i > nm
                      /\ \A id \in CounterIDs :
                             fq_sponge[RankIn(CounterIDs, id)] =
                                 [op |-> "absorb", kind |-> "m", v |-> Commit(CounterOf(id))]
               /\ e.kind = "m" => i <= nm
               /\ e.kind = "joint_combiner" => (i = nm + 1 /\ e.v = vector_lookup_combiner)
               /\ e.kind = "beta" => (i = nm + 2 /\ e.v = beta)
               /\ e.kind \in {"h", "fixed", "sum"} =>
                      {"joint_combiner", "beta"} \subseteq KindsBefore(i)
               /\ e.kind = "sum" => (i = n /\ pc = "done")
        /\ pc = "done" =>
               /\ n >= nm + 3
               /\ fq_sponge[n] = [op |-> "absorb", kind |-> "sum",
                                  v |-> Commit(lookup_aggregation_evals_d1)]
               /\ Cardinality({i \in 1..n : fq_sponge[i].kind = "h"}) =
                      Len(Flatten(lookup_terms_evals))
               /\ Cardinality({i \in 1..n : fq_sponge[i].kind = "fixed"}) =
                      Len(fixed_lookup_tables)

C2_Witness ==
    /\ pc = "done"
    /\ Len(mvlookups) = 2
    /\ Cardinality(CounterIDs) = 2
    /\ IdLt(mvlookups[2].f[1][1].table_id, mvlookups[1].f[1][1].table_id)
    /\ mvlookups[1].m # mvlookups[2].m
    /\ Len(fixed_lookup_tables) = 2

\* The commitments create absorbed, in the order it absorbed them
RECURSIVE AbsorbedOf(_)
AbsorbedOf(sponge) ==
    IF sponge = <<>> THEN <<>>
    ELSE IF Head(sponge).op = "absorb"
         THEN <<Head(sponge).v>> \o AbsorbedOf(Tail(sponge))
         ELSE AbsorbedOf(Tail(sponge))

\* The map of the commitments to the values of a map
CommitMap(map) == [i \in 1..Len(map) |-> <<map[i][1], Commit(map[i][2])>>]

\* The LookupProof that holds the commitments of the environment
ProofOfEnv ==
    LookupProof(CommitMap(lookup_counters_evals_d1),
                CommitEach(Flatten(lookup_terms_evals)),
                Commit(lookup_aggregation_evals_d1),
                CommitMap(fixed_lookup_tables))

\* C3 as it was stated: the commitments are absorbed in the iteration order
\* of the LookupProof that holds them
C3_AbsorbedInIterationOrder ==
    pc = "done" => AbsorbedOf(fq_sponge) = into_iter(ProofOfEnv)

\* C3, amended: create absorbs the multiplicities by ascending table id,
\* then the partial sums by index, then the fixed tables by ascending table
\* id, and the aggregation last: the iteration order of the LookupProof
\* with the aggregation moved behind the fixed tables.
C3_AbsorbedOrder ==
    pc = "done" =>
        LET out == AbsorbedOf(fq_sponge)
            p == ProofOfEnv
            nm == Len(p.m)
            nh == Len(p.h)
            nf == Len(p.fixed_tables)
        IN  /\ Len(out) = nm + nh + nf + 1
            /\ \A i \in 1..nm : out[i] = p.m[i][2]
            /\ \A i \in 1..(nm - 1) : IdLt(p.m[i][1], p.m[i + 1][1])
            /\ \A i \in 1..nh : out[nm + i] = p.h[i]
            /\ \A i \in 1..nf : out[nm + nh + i] = p.fixed_tables[i][2]
            /\ \A i \in 1..(nf - 1) : IdLt(p.fixed_tables[i][1], p.fixed_tables[i + 1][1])
            /\ out[nm + nh + nf + 1] = p.sum

C3_Witness ==
    /\ pc = "done"
    /\ Len(lookup_counters_evals_d1) = 2
    /\ Len(fixed_lookup_tables) = 2
    /\ Len(Flatten(lookup_terms_evals)) = 2
    /\ AbsorbedOf(fq_sponge) # into_iter(ProofOfEnv)
    /\ Commit(lookup_aggregation_evals_d1) # Commit(fixed_lookup_tables[1][2])

\* The row after row i (from 1), the first row after the last
NextRow(i) == IF i = d1_size THEN 1 ELSE i + 1

PastRowSums == pc \notin {"start", "m_absorbed", "combiner_drawn", "beta_drawn"}

\* beta + tableId + sum_{k >= 1} r^k * value_k of a concrete term
Denominator(x) ==
    LET w == [k \in 1..Len(x.value) |-> FMul(FPow(vector_lookup_combiner, k), x.value[k])]
    IN  FAdd(FAdd(beta, to_u32(x.table_id) % P), SumTo(w, Len(x.value)))

AllDenominatorsNonZero ==
    \A w \in 1..Len(mvlookups) : \A i \in 1..Len(mvlookups[w].f) : \A j \in 1..d1_size :
        Denominator(mvlookups[w].f[i][j]) # 0

\* The witness follows the convention: numerator 1 for the looked-up terms,
\* the table in the last column with the negated multiplicity as numerator,
\* every looked-up value in the table, m the number of lookups of each row
Conventional(wit) ==
    LET n == Len(wit.f)
        rows == 1..d1_size
    IN  /\ \A i \in 1..(n - 1) : \A j \in rows : wit.f[i][j].numerator = 1
        /\ \A j \in rows : wit.f[n][j].numerator = FNeg(wit.m[j])
        /\ \A i \in 1..(n - 1) : \A j \in rows : \E t \in rows :
               /\ wit.f[n][t].value = wit.f[i][j].value
               /\ wit.f[n][t].table_id = wit.f[i][j].table_id
        /\ \A t \in rows :
               wit.m[t] = Cardinality({e \in (1..(n - 1)) \X rows :
                              wit.f[e[1]][e[2]].value = wit.f[n][t].value}) % P

\* C5: for a witness that follows the convention and challenges that make
\* every denominator non-zero, create gets to the running sum, which is 0 at
\* row 0 and 0 after the last row, so that the zero-sum assertion holds.
C5_Completeness ==
    (/\ PastRowSums
     /\ pc # "h_absorbed"
     /\ Len(mvlookups) = 1
     /\ Conventional(mvlookups[1])
     /\ AllDenominatorsNonZero)
    => /\ pc = "done"
       /\ lookup_aggregation_evals_d1[1] = 0
       /\ AccAfter(Flatten(lookup_terms_evals), d1_size) = 0

\* sum over the terms 1..n of witness w of numerator / (beta + f) at row j
DirectSum(w, j) ==
    LET f == mvlookups[w].f
    IN  SumTo([i \in 1..Len(f) |->
                  FMul(f[i][j].numerator, FInv(Denominator(f[i][j])))], Len(f))

\* C6: for every witness, domain size and row j, the partial sums of the
\* witness at row j, over all its ceil(n / (MAX_SUPPORTED_DEGREE - 2))
\* chunks, add up to the direct sum of numerator_i(j) / (beta + f_i(j)) over
\* all its terms, the denominators being non-zero.
C6_ChunkingIdempotence ==
    (PastRowSums /\ AllDenominatorsNonZero) =>
        /\ Len(lookup_terms_evals) = Len(mvlookups)
        /\ \A w \in 1..Len(mvlookups) :
               LET h == lookup_terms_evals[w]
               IN  /\ Len(h) = CeilDiv(Len(mvlookups[w].f), MAX_SUPPORTED_DEGREE - 2)
                   /\ \A j \in 1..d1_size :
                          /\ \A c \in 1..Len(h) : Len(h[c]) >= j
                          /\ SumTo([c \in 1..Len(h) |-> h[c][j]], Len(h)) = DirectSum(w, j)

\* A looked-up value of the witness is absent from its table, the last column
HasAbsentLookup(wit) ==
    LET n == Len(wit.f)
    IN  \E i \in 1..(n - 1) : \E j \in 1..d1_size :
            \A t \in 1..d1_size : wit.f[n][t].value # wit.f[i][j].value

\* The challenge pairs on which create, run on the witnesses of this state,
\* computes a running sum that is zero after the last row
ZeroSumChallenges ==
    {ch \in F \X F :
        LET terms == lookup_terms(mvlookups, Len(mvlookups), d1_size, ch[1], ch[2])
        IN  terms.ok /\ AccAfter(Flatten(terms.evals), d1_size) = 0}

\* The number of components of the longest value of the witness
MaxValueLen(wit) ==
    LET lens == {Len(wit.f[i][j].value) : i \in 1..Len(wit.f), j \in 1..d1_size}
    IN  CHOOSE l \in lens : \A x \in lens : x <= l

\* C11: for a witness with a looked-up value that its table lacks, the
\* running sum of create is zero after the last row for a fraction of the
\* challenge pairs of at most (number of components of a value) / |F| only;
\* on every other pair create gets to the zero-sum assertion with a non-zero
\* accumulator and aborts there.
C11_Soundness ==
    (/\ PastRowSums
     /\ pc # "h_absorbed"
     /\ Len(mvlookups) = 1
     /\ HasAbsentLookup(mvlookups[1]))
    => /\ Cardinality(ZeroSumChallenges) <= MaxValueLen(mvlookups[1]) * P
       /\ <<vector_lookup_combiner, beta>> \in ZeroSumChallenges => pc = "done"
       /\ <<vector_lookup_combiner, beta>> \notin ZeroSumChallenges =>
              /\ pc = "panic_zero_sum"
              /\ AccAfter(Flatten(lookup_terms_evals), d1_size) # 0

\* The lookups a circuit declares for the witness wit of a fixed table: one
\* term of numerator 1 per lookup column, its value the witness columns
circuit_lookups(wit) ==
    LET K == Len(wit.f[1][1].value)
        id == wit.f[1][1].table_id
    IN  << <<id, [i \in 1..(Len(wit.f) - 1) |->
                    MVLookup(id, ELit(1),
                             [c \in 1..K |-> curr_cell(ColX((i - 1) * K + c - 1))])]>> >>

\* Row j of the columns of the environment create returned
ColumnEnv(j) ==
    [jc |-> vector_lookup_combiner, beta |-> beta, j |-> j, rows |-> d1_size,
     f |-> mvlookups[1].f, m |-> lookup_counters_evals_d1,
     fixed_tables |-> fixed_lookup_tables, h |-> Flatten(lookup_terms_evals),
     sum |-> lookup_aggregation_evals_d1]

\* C12: for one fixed table and a witness that follows the convention, the
\* multiplicity, fixed-table and partial-sum evaluations of create make
\* every partial-sum constraint that constraint_lookups emits for the same
\* lookups zero on every row.
C12_ProverConstraintAgreement ==
    (/\ pc = "done"
     /\ Len(mvlookups) = 1
     /\ is_fixed(mvlookups[1].f[1][1].table_id)
     /\ Conventional(mvlookups[1])
     /\ AllDenominatorsNonZero)
    => LET cs == constraint_lookups(circuit_lookups(mvlookups[1]))
       IN  /\ cs.ok
           /\ Len(cs.val) = Len(Flatten(lookup_terms_evals)) + 1
           /\ \A c \in 1..(Len(cs.val) - 1) : \A j \in 1..d1_size :
                  Eval(cs.val[c], ColumnEnv(j)) = 0

\* sum of numerator_i(j) / (beta + f_i(j)) over the terms of chunk c (from
\* 0) of witness w: c * size <= i < min(n, (c + 1) * size), i from 0
ChunkSum(w, c, j) ==
    LET f == mvlookups[w].f
        size == MAX_SUPPORTED_DEGREE - 2
        lo == c * size + 1
        hi == Min(Len(f), (c + 1) * size)
    IN  SumTo([i \in 1..(hi - lo + 1) |->
                  FMul(f[lo + i - 1][j].numerator,
                       FInv(Denominator(f[lo + i - 1][j])))], hi - lo + 1)

\* C13: for every witness of n columns, every row j and every chunk
\* c < ceil(n / (MAX_SUPPORTED_DEGREE - 2)), the value of partial sum c at
\* row j is the sum of numerator_i(j) / (beta + f_i(j)) over exactly the
\* terms of chunk c, the chunks being those constraint_lookups splits the
\* term list into: the same boundaries in every row.
C13_ChunkBoundaries ==
    (PastRowSums /\ AllDenominatorsNonZero) =>
        /\ Len(lookup_terms_evals) = Len(mvlookups)
        /\ \A w \in 1..Len(mvlookups) :
               LET n == Len(mvlookups[w].f)
                   n_chunks == CeilDiv(n, MAX_SUPPORTED_DEGREE - 2)
               IN  /\ Len(lookup_terms_evals[w]) = n_chunks
                   /\ \A c \in 0..(n_chunks - 1) : \A j \in 1..d1_size :
                          /\ Len(lookup_terms_evals[w][c + 1]) >= j
                          /\ lookup_terms_evals[w][c + 1][j] = ChunkSum(w, c, j)

\* C14: for every witness of n >= 1 columns and every domain size, create
\* makes ceil(n / (MAX_SUPPORTED_DEGREE - 2)) partial-sum vectors for it,
\* never writes past the last of them, and every vector gets one value per
\* row: domain-size entries, so that the length assertion holds.
C14_PartialSumShape ==
    PastRowSums =>
        /\ pc \notin {"panic_index", "panic_terms_len"}
        /\ Len(lookup_terms_evals) = Len(mvlookups)
        /\ \A w \in 1..Len(mvlookups) :
               /\ Len(lookup_terms_evals[w]) =
                      CeilDiv(Len(mvlookups[w].f), MAX_SUPPORTED_DEGREE - 2)
               /\ \A c \in 1..Len(lookup_terms_evals[w]) :
                      Len(lookup_terms_evals[w][c]) = d1_size

\* tableId + sum_{k >= 1} r^k * value_k of a concrete term
CombinedOf(x) ==
    LET w == [k \in 1..Len(x.value) |-> FMul(FPow(vector_lookup_combiner, k), x.value[k])]
    IN  FAdd(to_u32(x.table_id) % P, SumTo(w, Len(x.value)))

\* The last column of witness w
TableColumn(w) == mvlookups[w].f[Len(mvlookups[w].f)]

\* C15: for any list of witnesses, the vector recorded under a fixed
\* table's identity has domain-size entries, its entry at row j being the
\* combined value of the last column of the witness at row j, however many
\* witnesses of the list are of the same fixed table: the length assertion
\* on the fixed tables never aborts.
C15_FixedTableVector ==
    (PastRowSums /\ pc # "panic_index") =>
        /\ pc # "panic_fixed_len"
        /\ \A t \in 1..Len(fixed_lookup_tables) :
               Len(fixed_lookup_tables[t][2]) = d1_size
        /\ \A w \in 1..Len(mvlookups) : \A j \in 1..d1_size :
               LET x == TableColumn(w)[j]
               IN  is_fixed(x.table_id) =>
                       /\ BTreeHas(fixed_lookup_tables, x.table_id)
                       /\ Len(BTreeGet(fixed_lookup_tables, x.table_id)) >= j
                       /\ BTreeGet(fixed_lookup_tables, x.table_id)[j] = CombinedOf(x)

\* The keys of a map
KeySet(map) == {map[i][1] : i \in 1..Len(map)}

\* C16: in the environment create returns, the tables that have a
\* multiplicity polynomial are the tables that have a fixed-table
\* polynomial, and the multiplicity vector of a table is the m of the
\* witness of that table: every LookupMultiplicity(id) has its
\* LookupFixedTable(id).
C16_MultiplicityFixedTableKeys ==
    pc = "done" =>
        /\ KeySet(lookup_counters_evals_d1) = KeySet(fixed_lookup_tables)
        /\ \A id \in KeySet(fixed_lookup_tables) :
               \E w \in 1..Len(mvlookups) :
                   /\ TableColumn(w)[1].table_id = id
                   /\ BTreeHas(lookup_counters_evals_d1, id)
                   /\ BTreeGet(lookup_counters_evals_d1, id) = mvlookups[w].m

\* ------------------------------------------------------------------------
\* Claims about the constraint builder
\* ------------------------------------------------------------------------
\* The evaluation points the expressions are evaluated at
Envs == {[jc |-> r, beta |-> b, c |-> c, x |-> x] : r \in F, b \in F, c \in F, x \in F}

\* d = beta + tableId + sum_{k >= 1} r^k * v_k of a term at a point
TermDenominator(x, env) ==
    LET w == [k \in 1..Len(x.value) |-> FMul(FPow(env.jc, k), Eval(x.value[k], env))]
    IN  FAdd(FAdd(env.beta, to_u32(x.table_id) % P), SumTo(w, Len(x.value)))

C7_At(env) ==
    LET lookups == call.lookups
        n == Len(lookups)
        c == CellValue(env, call.column, "Curr")
        d == [i \in 1..n |-> TermDenominator(lookups[i], env)]
        m == [i \in 1..n |-> Eval(lookups[i].numerator, env)]
        rhs == [i \in 1..n |-> FMul(m[i], ProdTo(d, n, i))]
        fractions == [i \in 1..n |-> FMul(m[i], FInv(d[i]))]
        value == Eval(call.res.val, env)
    IN  /\ value = FSub(FMul(c, ProdTo(d, n, 0)), SumTo(rhs, n))
        /\ (\A i \in 1..n : d[i] # 0) => (value = 0 <=> c = SumTo(fractions, n))
        /\ n = 0 => value = c

\* C7: the expression combine_lookups returns evaluates to
\* c * prod_i d_i - sum_i m_i * prod_{j # i} d_j with
\* d_i = beta + tableId_i + sum_{k >= 1} r^k * v_{i,k}; with every d_i
\* non-zero it is zero exactly when c = sum_i m_i / d_i; for no term at all
\* it evaluates to c.
C7_CombineLookupsValue ==
    (call.fn = "combine_lookups" /\ call.res.ok) => \A env \in Envs : C7_At(env)

C7_Witness ==
    /\ call.fn = "combine_lookups"
    /\ call.res.ok
    /\ Len(call.lookups) = 3
    /\ \E i \in 1..3 : Len(call.lookups[i].value) = 3
    /\ \E env \in Envs :
           /\ env.jc > 1
           /\ \A i \in 1..3 : TermDenominator(call.lookups[i], env) # 0
           /\ Eval(call.res.val, env) = 0

\* The terms of table entry t of the map with the term of the table itself
TermsOfTable(t) ==
    Append(lookups_map[t][2],
           MVLookup(lookups_map[t][1],
                    curr_cell(ColLookupMultiplicity(to_u32(lookups_map[t][1]))),
                    <<curr_cell(ColLookupFixedTable(to_u32(lookups_map[t][1])))>>))

\* Number of chunks of table entry t
ChunksOfTable(t) == CeilDiv(Len(lookups_map[t][2]) + 1, MAX_SUPPORTED_DEGREE - 2)

RECURSIVE ChunksBefore(_)
ChunksBefore(t) == IF t = 1 THEN 0 ELSE ChunksBefore(t - 1) + ChunksOfTable(t - 1)

\* The cells an expression reads
RECURSIVE CellsOf(_)
CellsOf(e) ==
    IF e.t \in {"lit", "chal"} THEN {}
    ELSE IF e.t = "cell" THEN {<<e.v, e.row>>}
    ELSE CellsOf(e.l) \cup CellsOf(e.r)

\* C8: constraint_lookups returns sum_t ceil((k_t + 1) / (MAX_SUPPORTED_DEGREE - 2)) + 1
\* constraints: tables by ascending id, the table's own term appended after
\* its lookups, one combine_lookups constraint per chunk of at most
\* MAX_SUPPORTED_DEGREE - 2 consecutive terms, bound to the partial sums
\* 0, 1, 2, ... consecutively across the tables, and at the end
\* phi(next) - phi(curr) - the sum of all those partial sums at the current row.
C8_ConstraintLookupsShape ==
    (call.fn = "constraint_lookups" /\ call.res.ok) =>
        LET cs == call.res.val
            nt == Len(lookups_map)
            total == ChunksBefore(nt + 1)
            size == MAX_SUPPORTED_DEGREE - 2
            last == cs[Len(cs)]
        IN  /\ \A t \in 1..(nt - 1) : IdLt(lookups_map[t][1], lookups_map[t + 1][1])
            /\ Len(cs) = total + 1
            /\ \A t \in 1..nt : \A c \in 0..(ChunksOfTable(t) - 1) :
                   cs[ChunksBefore(t) + c + 1] =
                       combine_lookups(
                           ColLookupPartialSum(ChunksBefore(t) + c),
                           SubSeq(TermsOfTable(t), size * c + 1,
                                  Min(size * c + size, Len(TermsOfTable(t))))).val
            /\ CellsOf(last) =
                   {<<ColLookupAggregation, "Next">>, <<ColLookupAggregation, "Curr">>}
                       \cup {<<ColLookupPartialSum(i), "Curr">> : i \in 0..(total - 1)}
            /\ \A env \in Envs :
                   LET h == [i \in 1..total |->
                                CellValue(env, ColLookupPartialSum(i - 1), "Curr")]
                   IN  Eval(last, env) =
                           FSub(FSub(CellValue(env, ColLookupAggregation, "Next"),
                                     CellValue(env, ColLookupAggregation, "Curr")),
                                SumTo(h, total))

C8_Witness ==
    /\ call.fn = "constraint_lookups"
    /\ call.res.ok
    /\ Len(lookups_map) = 2
    /\ Len(lookups_map[1][2]) = 6
    /\ Len(lookups_map[2][2]) = 2
    /\ Len(call.res.val) = 4

\* The term of the witness that the term x of the circuit stands for at a
\* point: its numerator and the components of its value, evaluated
ConcreteTerm(x, env) ==
    MVLookup(x.table_id, Eval(x.numerator, env),
             [k \in 1..Len(x.value) |-> Eval(x.value[k], env)])

\* C17: the denominator create computes for a term and the value of the
\* denominator expression combine_lookups builds for it are equal, and both
\* are beta + tableId + r * v_1 + r^2 * v_2 + ... + r^K * v_K: the table
\* identity added once, the first component weighted by r.
C17_SameCombination ==
    (call.fn = "combine_lookups" /\ call.res.ok) =>
        \A env \in Envs : \A i \in 1..Len(call.lookups) :
            LET x == call.lookups[i]
                prover == FAdd(env.beta, combined_value(ConcreteTerm(x, env), env.jc))
                builder == Eval(denominator_expr(x), env)
            IN  /\ prover = builder
                /\ prover = TermDenominator(x, env)

C17_Witness ==
    /\ call.fn = "combine_lookups"
    /\ call.res.ok
    /\ \E i \in 1..Len(call.lookups) : \E env \in Envs :
           LET x == call.lookups[i]
               v == ConcreteTerm(x, env).value
           IN  /\ Len(v) = 3
               /\ x.table_id # TableID(0)
               /\ env.jc > 1
               /\ v[1] # v[3]
               /\ TermDenominator(x, env) #
                      FAdd(FAdd(env.beta, to_u32(x.table_id) % P),
                           SumTo([k \in 1..3 |-> FMul(FPow(env.jc, k), v[4 - k])], 3))

\* ------------------------------------------------------------------------
\* Claims about the proof container
\* ------------------------------------------------------------------------
\* Number of keys of f below k
KeyRank(f, k) == Cardinality({x \in DOMAIN f : IdLt(x, k)})

\* C1: iterating a LookupProof yields the values of m by ascending table
\* id, then h by index, then sum, then the values of fixed_tables by
\* ascending table id: |m| + |h| + 1 + |fixed_tables| items, determined by
\* the entries alone, whatever the order they were inserted in.
C1_IterationOrder ==
    ret.op = "into_iter" =>
        LET p == Unwrap(mvlookup_evals)
            out == ret.res.val
            nm == Cardinality(DOMAIN m_entries)
            nh == Len(p.h)
            nf == Cardinality(DOMAIN fixed_entries)
        IN  /\ ret.res.ok
            /\ Len(out) = nm + nh + 1 + nf
            /\ \A k \in DOMAIN m_entries :
                   out[KeyRank(m_entries, k) + 1] = m_entries[k]
            /\ \A i \in 1..nh : out[nm + i] = p.h[i]
            /\ out[nm + nh + 1] = p.sum
            /\ \A k \in DOMAIN fixed_entries :
                   out[nm + nh + 1 + KeyRank(fixed_entries, k) + 1] = fixed_entries[k]

C1_Witness ==
    /\ ret.op = "into_iter"
    /\ Cardinality(DOMAIN m_entries) = 2
    /\ Cardinality(DOMAIN fixed_entries) = 2
    /\ Len(Unwrap(mvlookup_evals).h) = 2
    /\ \E k1 \in DOMAIN m_entries, k2 \in DOMAIN m_entries : m_entries[k1] # m_entries[k2]
    /\ \E k1 \in DOMAIN fixed_entries, k2 \in DOMAIN fixed_entries :
           fixed_entries[k1] # fixed_entries[k2]

C9_Returned ==
    (ret.op = "evaluate" /\ ret.res.ok) =>
        LET c == ret.col
            v == ret.res.val
        IN  /\ c.k = "X" => (c.i < NWitness /\ v = witness_evals[c.i + 1])
            /\ c.k # "X" => IsSome(mvlookup_evals)
            /\ c.k = "LookupPartialSum" => v = Unwrap(mvlookup_evals).h[c.i + 1]
            /\ c.k = "LookupAggregation" => v = Unwrap(mvlookup_evals).sum
            /\ c.k = "LookupMultiplicity" =>
                   /\ from_u32(c.i) \in DOMAIN m_entries
                   /\ v = m_entries[from_u32(c.i)]
            /\ c.k = "LookupFixedTable" =>
                   /\ from_u32(c.i) \in DOMAIN fixed_entries
                   /\ v = fixed_entries[from_u32(c.i)]
            /\ \A t \in ProofIDs :
                   /\ c = ColLookupMultiplicity(to_u32(t)) => v = m_entries[t]
                   /\ c = ColLookupFixedTable(to_u32(t)) => v = fixed_entries[t]

C9_ProofUnchanged ==
    ret'.op = "evaluate" =>
        /\ mvlookup_evals' = mvlookup_evals
        /\ witness_evals' = witness_evals

\* C9: when evaluate returns, it returns Ok of witness_evals[i] for X(i)
\* with i < N, h[i] for LookupPartialSum(i), sum for LookupAggregation,
\* m[from_u32(id)] for LookupMultiplicity(id) and fixed_tables[from_u32(id)]
\* for LookupFixedTable(id); the columns made from to_u32(t) resolve to the
\* entries stored under t; and the call leaves the proof unchanged.
C9_EvaluateDispatch == [](C9_Returned) /\ [][C9_ProofUnchanged]_vars

C9_Witness ==
    /\ ret.op = "evaluate"
    /\ ret.res.ok
    /\ ret.col = ColLookupFixedTable(to_u32(TableID(1)))
    /\ DOMAIN m_entries = ProofIDs
    /\ DOMAIN fixed_entries = ProofIDs
    /\ m_entries[TableID(1)] # fixed_entries[TableID(1)]
    /\ fixed_entries[TableID(0)] # fixed_entries[TableID(1)]

\* C10: a request for a lookup column when mvlookup_evals is None, and a
\* request for X(i) with i >= N, never returns Ok (the call aborts); a
\* request for X(i) with i < N returns Ok with or without a lookup section.
C10_EvaluateErrors ==
    ret.op = "evaluate" =>
        /\ (ret.col.k # "X" /\ ~IsSome(mvlookup_evals)) => ~ret.res.ok
        /\ (ret.col.k = "X" /\ ret.col.i >= NWitness) => ~ret.res.ok
        /\ (ret.col.k = "X" /\ ret.col.i < NWitness) => ret.res.ok

C10_Witness ==
    /\ ret.op = "evaluate"
    /\ ret.col = ColLookupAggregation
    /\ ~IsSome(mvlookup_evals)
    /\ ~ret.res.ok

====
